---- MODULE Spec2Model ----
(***************************************************************************)
(* Playback control core of rhytmiq (src/rhytmiq/media_player.py): the     *)
(* MediaPlayer widget's playback state, the commands that run on the UI    *)
(* thread, and the monitor_song_end watchdog thread that polls the audio   *)
(* output.  Each thread is a call stack of frames; one step of a thread    *)
(* executes the statement its top frame stands at, so the two threads      *)
(* interleave between statements.                                          *)
(***************************************************************************)
EXTENDS Integers, Sequences, FiniteSets, TLC

\* Number of distinct track titles the playlist can hold.
MaxTracks == 1
\* Loads the output may reject in a row within one operation; each rejected
\* load leaves a play_song frame waiting on the stack.
MaxDepth == 1
\* The same two bounds in the runs that take one operation at a time.
SeqTracks == 2
SeqDepth == 1

None == 0
\* line 260: the full volume 1, in the units the volume is counted in.
VolumeMax == 10
\* line 47: volume = reactive(0.5), in the same units.
InitialVolume == 5
\* utils.constants.VOLUME_STEP, in the same units.
VOLUME_STEP == 2
\* playlist.songs maps a title to the path of its file; file 0 is a media
\* file that is in no playlist.
PathOf(t) == 10 + t
Threads == {"ui", "wd"}

VARIABLES
    state,                  \* self.state: "STOPPED" | "PLAYING" | "PAUSED"
    playing_song,           \* self.playing_song: None or a path
    playing_from_playlist,  \* self.playing_from_playlist
    current_playlist_media, \* self.current_playlist_media: [title, path], None = key absent
    loop,                   \* self.loop: "NONE" | "ONE" | "ALL"
    state_switch,           \* self.state_switch
    running,                \* self.running
    songs,                  \* self.playlist.songs: the titles in displayed order
    output,                 \* pygame.mixer.music: "idle" | "playing" | "paused"
    stack,                  \* stack[th]: the call stack of thread th
    exc,                    \* exc[th]: the exception that ended thread th's work
    stray,                  \* watchdog threads alive that self.monitor_thread no longer refers to
    shuffle,                \* self.shuffle
    current_playlist,       \* self.current_playlist: None or the (title, path) pairs saved at shuffle
    volume,                 \* self.volume, in units of 1/VolumeMax
    pre,                    \* pre[th]: what the running operation of th started from
    shown                   \* the displayed order when shuffle was last turned on

player == <<state, playing_song, playing_from_playlist, current_playlist_media,
            loop, state_switch>>
\* The settings of the control panel, and what is recorded about them.
panel == <<shuffle, current_playlist, volume, shown>>
vars == <<state, playing_song, playing_from_playlist, current_playlist_media,
          loop, state_switch, running, songs, output, stack, exc, pre,
          stray, panel>>

Frame(pc, media, fp, t) == [pc |-> pc, media |-> media, fp |-> fp, t |-> t]
NullPre == [op |-> "none", song |-> None, sel |-> None, tried |-> <<>>]
\* h: whether the operation's starting point is recorded.
StartPre(h, op) ==
    IF h THEN [op |-> op, song |-> playing_song,
               sel |-> current_playlist_media.title, tried |-> <<>>]
         ELSE NullPre
\* A load of media is attempted: recorded when the operation is.
Tried(p, media) ==
    IF p.op = "none" THEN p ELSE [p EXCEPT !.tried = Append(@, media)]

Top(th) == stack[th][Len(stack[th])]
\* An exception the UI thread does not catch ends the application, and the
\* watchdog (a daemon thread) with it.
Crashed == exc["ui"] # "none"
At(th, pcs) == ~Crashed /\ stack[th] # <<>> /\ Top(th).pc \in pcs
\* Frames of th that belong to the thread itself, not to an operation it runs.
Base(th) == IF th = "wd" THEN 1 ELSE 0
Idle(th) == Len(stack[th]) <= Base(th)

RangeOf(s) == {s[i] : i \in 1..Len(s)}
IndexOf(s, x) == CHOOSE i \in 1..Len(s) : s[i] = x
Without(s, x) == SelectSeq(s, LAMBDA y : y # x)

----
\* Control transfer.  Each sets stack', exc' and pre'.

\* The top frame of th becomes f (next statement, or a call in tail position).
JumpP(th, f, p) ==
    /\ stack' = [stack EXCEPT ![th] = [@ EXCEPT ![Len(@)] = f]]
    /\ pre' = [pre EXCEPT ![th] = p]
    /\ exc' = exc
Jump(th, f) == JumpP(th, f, pre[th])
Goto(th, pc) == Jump(th, [Top(th) EXCEPT !.pc = pc])

\* The function of the top frame returns.
Return(th) ==
    /\ stack' = [stack EXCEPT ![th] = SubSeq(@, 1, Len(@) - 1)]
    /\ pre' = IF Len(stack[th]) - 1 <= Base(th)
                THEN [pre EXCEPT ![th] = NullPre] ELSE pre
    /\ exc' = exc

\* An exception no frame catches: the whole stack of th unwinds.
Raise(th, e) ==
    /\ stack' = [stack EXCEPT ![th] = <<>>]
    /\ exc' = [exc EXCEPT ![th] = e]
    /\ pre' = [pre EXCEPT ![th] = NullPre]

\* The top frame calls callee and will resume at pc resume.
CallP(th, resume, callee, p) ==
    /\ stack' = [stack EXCEPT ![th] =
                   Append([@ EXCEPT ![Len(@)].pc = resume], callee)]
    /\ pre' = [pre EXCEPT ![th] = p]
    /\ exc' = exc

\* Frames of th waiting for a call to return.
Depth(th) == Len(stack[th]) - 1 - Base(th)

----
\* The audio output (utils.playback over pygame.mixer.music).

\* pause(): a playing stream is suspended.
pause(o) == IF o = "playing" THEN "paused" ELSE o
\* unpause(): a suspended stream resumes.
unpause(o) == IF o = "paused" THEN "playing" ELSE o
\* stop(): the stream ends.
stop(o) == "idle"
\* pygame.mixer.music.get_busy(): a stream is sounding.
get_busy(o) == o = "playing"
\* play(media): True and the stream sounds, or False for a file the output
\* rejects; a rejected load may or may not have ended the stream that sounded.
AfterPlay(ok, o) == IF ok THEN {"playing"} ELSE {o, "idle"}
\* The results play(media) may give: at most d loads in a row are rejected.
PlayResults(th, d) == IF Depth(th) < d THEN BOOLEAN ELSE {TRUE}

----
\* MediaPlayer.play_song(media, from_playlist), statement by statement.

\* NoMedia with the empty-media test dropped.
NoMediaNever(media) == FALSE

\* line 88: an empty media is ignored.
NoMedia(media) == media = None

\* self.monitor_thread.is_alive(): the thread self.monitor_thread refers to runs.
MonitorAlive == stack["wd"] # <<>>

\* NeedsMonitor with the test of line 101 dropped.
NeedsMonitorAlways == TRUE

\* line 101: a watchdog is started only when none is alive.
NeedsMonitor == stack["wd"] = <<>>

play_song(th, d) ==
    /\ At(th, {"ps88", "ps92", "ps94", "ps95", "ps96", "ps101", "ps106", "ps108"})
    /\ LET f == Top(th) IN
       CASE f.pc = "ps88" ->
              IF NoMedia(f.media)
                THEN Return(th) /\ UNCHANGED <<player, output>>
                ELSE /\ state_switch' = TRUE
                     /\ Goto(th, "ps92")
                     /\ UNCHANGED <<state, playing_song, playing_from_playlist,
                                    current_playlist_media, loop, output>>
         [] f.pc = "ps92" ->
              /\ playing_from_playlist' = f.fp
              /\ Jump(th, [f EXCEPT !.pc = "ps94", !.fp = FALSE])
              /\ UNCHANGED <<state, playing_song, current_playlist_media, loop,
                             state_switch, output>>
         [] f.pc = "ps94" ->
              /\ \E ok \in PlayResults(th, d) :
                   /\ output' \in AfterPlay(ok, output)
                   /\ LET p == Tried(pre[th], f.media) IN
                      IF ok
                        THEN JumpP(th, [f EXCEPT !.pc = "ps95"], p)
                        ELSE CallP(th, "ps106", Frame("ns190", None, FALSE, None), p)
              /\ UNCHANGED player
         [] f.pc = "ps95" ->
              /\ state' = "PLAYING"
              /\ Goto(th, "ps96")
              /\ UNCHANGED <<playing_song, playing_from_playlist,
                             current_playlist_media, loop, state_switch, output>>
         [] f.pc = "ps96" ->
              /\ playing_song' = f.media
              /\ Jump(th, [f EXCEPT !.pc = "ps101", !.media = None])
              /\ UNCHANGED <<state, playing_from_playlist, current_playlist_media,
                             loop, state_switch, output>>
         [] f.pc = "ps101" ->
              /\ stack' = [stack EXCEPT
                             ![th] = [@ EXCEPT ![Len(@)].pc = "ps108"],
                             \* lines 102-103: self.monitor_thread is replaced
                             !["wd"] = IF NeedsMonitor
                                         THEN <<Frame("wd118", None, FALSE, None)>>
                                         ELSE @]
              /\ exc' = IF NeedsMonitor THEN [exc EXCEPT !["wd"] = "none"] ELSE exc
              /\ UNCHANGED <<player, output, pre>>
         [] f.pc = "ps106" ->
              \* notify(...), then line 108
              /\ state_switch' = FALSE
              /\ Return(th)
              /\ UNCHANGED <<state, playing_song, playing_from_playlist,
                             current_playlist_media, loop, output>>
         [] f.pc = "ps108" ->
              /\ state_switch' = FALSE
              /\ Return(th)
              /\ UNCHANGED <<state, playing_song, playing_from_playlist,
                             current_playlist_media, loop, output>>
    \* a thread that line 102 replaces while it is alive runs on, unreferenced
    /\ stray' = IF Top(th).pc = "ps101" /\ NeedsMonitor /\ MonitorAlive
                  THEN stray + 1 ELSE stray
    /\ UNCHANGED <<running, songs, panel>>

----
\* Navigation: MediaPlayer.next_song and MediaPlayer.previous_song.

\* lines 193 and 223: a standalone file without looping only stops.
StandaloneStop == ~playing_from_playlist /\ loop = "NONE"

\* UsesPlaylist with loop mode ONE not told apart.
UsesPlaylistInAnyLoop == playing_from_playlist

\* lines 200 and 230: the playlist is consulted.
UsesPlaylist == playing_from_playlist /\ loop # "ONE"

\* NextIndex with the wrap going to the last index, as in previous_song.
NextIndexWrapsToLast(i, n, lp) ==
    IF i + 1 <= n THEN i + 1
    ELSE IF lp = "ALL" THEN n
    ELSE 0

\* lines 204-211: the index after i among n titles, 0 when there is none.
NextIndex(i, n, lp) ==
    IF i + 1 <= n THEN i + 1
    ELSE IF lp = "ALL" THEN 1
    ELSE 0

\* PreviousIndex with a wrap that does not look at the loop mode.
PreviousIndexAlwaysWraps(i, n, lp) ==
    IF i > 1 THEN i - 1 ELSE n

\* lines 234-241: the index before i among n titles, 0 when there is none.
PreviousIndex(i, n, lp) ==
    IF i > 1 THEN i - 1
    ELSE IF lp = "ALL" THEN n
    ELSE 0

\* lines 201-211 and 231-241: look the bookmark up in the displayed order and
\* resolve the target; titles.index raises for a title that is not listed.
Navigate(th, dir, stopAt, playAt, callAt) ==
    LET f == Top(th) IN
    IF UsesPlaylist
      THEN IF current_playlist_media.title = None
             THEN Raise(th, "KeyError") /\ UNCHANGED <<player, output>>
           ELSE IF current_playlist_media.title \notin RangeOf(songs)
             THEN Raise(th, "ValueError") /\ UNCHANGED <<player, output>>
           ELSE LET i == IndexOf(songs, current_playlist_media.title)
                    j == IF dir = "next"
                           THEN NextIndex(i, Len(songs), loop)
                           ELSE PreviousIndex(i, Len(songs), loop)
                IN IF j # 0
                     THEN /\ Jump(th, [f EXCEPT !.pc = playAt, !.t = songs[j]])
                          /\ UNCHANGED <<player, output>>
                     ELSE /\ output' = stop(output)
                          /\ Goto(th, stopAt)
                          /\ UNCHANGED player
      ELSE Goto(th, callAt) /\ UNCHANGED <<player, output>>

\* lines 213-216 and 243-246: read the target's path and move the bookmark.
MoveSelection(th, callAt) ==
    LET f == Top(th) IN
    IF f.t \notin RangeOf(songs)
      THEN Raise(th, "KeyError") /\ UNCHANGED <<player, output>>
      ELSE /\ current_playlist_media' = [title |-> f.t, path |-> PathOf(f.t)]
           /\ Jump(th, [f EXCEPT !.pc = callAt, !.media = PathOf(f.t)])
           /\ UNCHANGED <<state, playing_song, playing_from_playlist, loop,
                          state_switch, output>>

\* lines 195, 210, 225, 240: self.state = State.STOPPED, then return.
SetStopped(th) ==
    /\ state' = "STOPPED"
    /\ Return(th)
    /\ UNCHANGED <<playing_song, playing_from_playlist, current_playlist_media,
                   loop, state_switch, output>>

\* lines 218 and 248: self.play_song(path, from_playlist=self.playing_from_playlist)
CallPlaySong(th) ==
    /\ Jump(th, Frame("ps88", Top(th).media, playing_from_playlist, None))
    /\ UNCHANGED <<player, output>>

next_song(th) ==
    /\ At(th, {"ns190", "ns195", "ns200", "ns210", "ns213", "ns218"})
    /\ LET f == Top(th) IN
       CASE f.pc = "ns190" ->
              IF playing_song = None
                THEN Return(th) /\ UNCHANGED <<player, output>>
              ELSE IF StandaloneStop
                THEN /\ output' = stop(output)
                     /\ Goto(th, "ns195")
                     /\ UNCHANGED player
              ELSE /\ Jump(th, [f EXCEPT !.pc = "ns200", !.media = playing_song])
                   /\ UNCHANGED <<player, output>>
         [] f.pc \in {"ns195", "ns210"} -> SetStopped(th)
         [] f.pc = "ns200" -> Navigate(th, "next", "ns210", "ns213", "ns218")
         [] f.pc = "ns213" -> MoveSelection(th, "ns218")
         [] f.pc = "ns218" -> CallPlaySong(th)
    /\ UNCHANGED <<running, songs, stray, panel>>

previous_song(th) ==
    /\ At(th, {"pv223", "pv225", "pv230", "pv240", "pv243", "pv248"})
    /\ LET f == Top(th) IN
       CASE f.pc = "pv223" ->
              IF StandaloneStop
                THEN /\ output' = stop(output)
                     /\ Goto(th, "pv225")
                     /\ UNCHANGED player
                ELSE /\ Jump(th, [f EXCEPT !.pc = "pv230", !.media = playing_song])
                     /\ UNCHANGED <<player, output>>
         [] f.pc \in {"pv225", "pv240"} -> SetStopped(th)
         [] f.pc = "pv230" -> Navigate(th, "previous", "pv240", "pv243", "pv248")
         [] f.pc = "pv243" -> MoveSelection(th, "pv248")
         [] f.pc = "pv248" -> CallPlaySong(th)
    /\ UNCHANGED <<running, songs, stray, panel>>

----
\* The watchdog thread: MediaPlayer.monitor_song_end and handle_song_end.

\* line 119: the watchdog stands down while a play transition is in flight.
StandDown == state_switch

\* line 123: the track ended by itself.
SongEnded == state = "PLAYING" /\ ~get_busy(output)

monitor_song_end(h) ==
    /\ At("wd", {"wd118", "wd120", "wd123", "wd125"})
    /\ LET f == Top("wd") IN
       CASE f.pc = "wd118" ->
              IF ~running
                THEN /\ stack' = [stack EXCEPT !["wd"] = <<>>]
                     /\ UNCHANGED <<exc, pre>>
              ELSE IF StandDown THEN Goto("wd", "wd120")
              ELSE Goto("wd", "wd123")
         [] f.pc \in {"wd120", "wd125"} ->
              \* sleep(0.5)
              Goto("wd", "wd118")
         [] f.pc = "wd123" ->
              IF SongEnded
                THEN CallP("wd", "wd125", Frame("hs130", None, FALSE, None),
                           StartPre(h, "end"))
                ELSE Goto("wd", "wd118")
    /\ UNCHANGED <<player, running, songs, output, stray, panel>>

\* SongEndAction with a standalone track replayed in any loop mode.
SongEndActionAlwaysReplays ==
    IF state = "PAUSED" THEN "return"
    ELSE IF ~playing_from_playlist THEN "replay"
    ELSE IF songs = <<>> THEN "stopped"
    ELSE "next"

\* lines 130-144: what the end of a track leads to.
SongEndAction ==
    IF state = "PAUSED" THEN "return"
    ELSE IF ~playing_from_playlist
      THEN IF loop # "NONE" THEN "replay" ELSE "stopped"
    ELSE IF songs = <<>> THEN "stopped"
    ELSE "next"

handle_song_end ==
    /\ At("wd", {"hs130", "hs137"})
    /\ LET f == Top("wd") IN
       CASE f.pc = "hs130" ->
              /\ CASE SongEndAction = "return" -> Return("wd")
                   [] SongEndAction = "replay" ->
                        Jump("wd", Frame("ps88", playing_song, FALSE, None))
                   [] SongEndAction = "stopped" -> Goto("wd", "hs137")
                   [] SongEndAction = "next" ->
                        Jump("wd", Frame("ns190", None, FALSE, None))
              /\ UNCHANGED <<player, output>>
         [] f.pc = "hs137" -> SetStopped("wd")
    /\ UNCHANGED <<running, songs, stray, panel>>

----
\* Commands that run on the UI thread.

\* Remembered with the test for a remembered track dropped.
RememberedOrNot == state = "STOPPED"

\* line 155: the player is stopped and remembers a track.
Remembered == state = "STOPPED" /\ playing_song # None

toggle_play_state ==
    /\ At("ui", {"tp149", "tp151", "tp154"})
    /\ LET f == Top("ui") IN
       CASE f.pc = "tp149" ->
              IF state = "PLAYING"
                THEN /\ output' = pause(output)
                     /\ Goto("ui", "tp151")
                     /\ UNCHANGED player
              ELSE IF state = "PAUSED"
                THEN /\ output' = unpause(output)
                     /\ Goto("ui", "tp154")
                     /\ UNCHANGED player
              ELSE IF Remembered
                THEN /\ Jump("ui", Frame("ps88", playing_song,
                                         playing_from_playlist, None))
                     /\ UNCHANGED <<player, output>>
              ELSE Return("ui") /\ UNCHANGED <<player, output>>
         [] f.pc = "tp151" ->
              /\ state' = "PAUSED"
              /\ Return("ui")
              /\ UNCHANGED <<playing_song, playing_from_playlist,
                             current_playlist_media, loop, state_switch, output>>
         [] f.pc = "tp154" ->
              /\ state' = "PLAYING"
              /\ Return("ui")
              /\ UNCHANGED <<playing_song, playing_from_playlist,
                             current_playlist_media, loop, state_switch, output>>
    /\ UNCHANGED <<running, songs, stray, panel>>

\* NextLoop with ONE and ALL exchanged.
NextLoopBackwards(lp) ==
    IF lp = "NONE" THEN "ALL"
    ELSE IF lp = "ALL" THEN "ONE"
    ELSE "NONE"

\* lines 161-166
NextLoop(lp) ==
    IF lp = "NONE" THEN "ONE"
    ELSE IF lp = "ONE" THEN "ALL"
    ELSE "NONE"

change_loop_state ==
    /\ At("ui", {"cl161"})
    /\ loop' = NextLoop(loop)
    /\ Return("ui")
    /\ UNCHANGED <<state, playing_song, playing_from_playlist,
                   current_playlist_media, state_switch, running, songs, output,
                   stray, panel>>

\* line 339 is the comparison self.state == State.STOPPED: it assigns nothing.
StateAfterStop(st) == st

stop_song ==
    /\ At("ui", {"st338", "st339"})
    /\ LET f == Top("ui") IN
       CASE f.pc = "st338" ->
              /\ output' = stop(output)
              /\ Goto("ui", "st339")
              /\ UNCHANGED player
         [] f.pc = "st339" ->
              /\ state' = StateAfterStop(state)
              /\ Return("ui")
              /\ UNCHANGED <<playing_song, playing_from_playlist,
                             current_playlist_media, loop, state_switch, output>>
    /\ UNCHANGED <<running, songs, stray, panel>>

play_from_playlist ==
    /\ At("ui", {"pf112", "pf114"})
    /\ LET f == Top("ui") IN
       CASE f.pc = "pf112" ->
              /\ current_playlist_media' = [title |-> f.t, path |-> f.media]
              /\ Goto("ui", "pf114")
              /\ UNCHANGED <<state, playing_song, playing_from_playlist, loop,
                             state_switch, output>>
         [] f.pc = "pf114" ->
              /\ Jump("ui", Frame("ps88", current_playlist_media.path, TRUE, None))
              /\ UNCHANGED <<player, output>>
    /\ UNCHANGED <<running, songs, stray, panel>>

\* The UI thread takes one command at a time, while the application runs.
Ready == stack["ui"] = <<>> /\ ~Crashed /\ running

Begin(h, op, f) ==
    /\ Ready
    /\ stack' = [stack EXCEPT !["ui"] = <<f>>]
    /\ pre' = [pre EXCEPT !["ui"] = StartPre(h, op)]
    /\ UNCHANGED <<player, running, songs, output, exc, stray, panel>>

\* A file chosen in the file explorer: play_song(path).
select_file(h, m) == Begin(h, "play", Frame("ps88", m, FALSE, None))
\* An entry chosen in the playlist: play_from_playlist((title, path)).
select_playlist_entry(h, t) ==
    /\ t \in RangeOf(songs)
    /\ Begin(h, "play_from_playlist", Frame("pf112", PathOf(t), TRUE, t))
action_toggle_play(h) == Begin(h, "toggle", Frame("tp149", None, FALSE, None))
action_next_song(h) == Begin(h, "next", Frame("ns190", None, FALSE, None))
action_previous_song(h) == Begin(h, "previous", Frame("pv223", None, FALSE, None))
action_loop(h) == Begin(h, "loop", Frame("cl161", None, FALSE, None))
action_stop_song(h) == Begin(h, "stop", Frame("st338", None, FALSE, None))

----
\* The environment.

\* The stream reaches the end of the file.
TrackEnds ==
    /\ ~Crashed
    /\ output = "playing"
    /\ output' = "idle"
    /\ UNCHANGED <<player, running, songs, stack, exc, pre, stray, panel>>

\* The playlist component appends a title (titles are added in name order).
add_song(t) ==
    /\ Ready
    /\ \A u \in RangeOf(songs) : u < t
    /\ songs' = Append(songs, t)
    /\ shown' = [shown EXCEPT !.intact = FALSE]
    /\ UNCHANGED <<player, running, output, stack, exc, pre, stray,
                   shuffle, current_playlist, volume>>

\* The playlist component removes a title.
remove_song(t) ==
    /\ Ready
    /\ t \in RangeOf(songs)
    /\ songs' = Without(songs, t)
    /\ shown' = [shown EXCEPT !.intact = FALSE]
    /\ UNCHANGED <<player, running, output, stack, exc, pre, stray,
                   shuffle, current_playlist, volume>>

\* The application shuts the player down.
shutdown ==
    /\ Ready
    /\ running' = FALSE
    /\ UNCHANGED <<player, songs, output, stack, exc, pre, stray, panel>>

----
Init ==
    /\ state = "STOPPED"
    /\ playing_song = None
    /\ playing_from_playlist = FALSE
    /\ current_playlist_media = [title |-> None, path |-> None]
    /\ loop = "NONE"
    /\ state_switch = FALSE
    /\ running = TRUE
    /\ songs = <<>>
    /\ output = "idle"
    /\ stack = [th \in Threads |-> <<>>]
    /\ exc = [th \in Threads |-> "none"]
    /\ pre = [th \in Threads |-> NullPre]
    /\ stray = 0
    /\ shuffle = FALSE
    /\ current_playlist = <<>>
    /\ volume = InitialVolume
    /\ shown = [order |-> <<>>, intact |-> FALSE]

UIStep(d) ==
    \/ play_song("ui", d)
    \/ next_song("ui")
    \/ previous_song("ui")
    \/ toggle_play_state
    \/ change_loop_state
    \/ stop_song
    \/ play_from_playlist

\* The commands and playlist edits the user can issue over the titles 1..n.
UICommand(h, n) ==
    \/ \E t \in 0..n : select_file(h, PathOf(t))
    \/ \E t \in 1..n : select_playlist_entry(h, t)
    \/ action_toggle_play(h)
    \/ action_next_song(h)
    \/ action_previous_song(h)
    \/ action_loop(h)
    \/ action_stop_song(h)
    \/ \E t \in 1..n : add_song(t)
    \/ \E t \in 1..n : remove_song(t)
    \/ shutdown

WDStep(h, d) ==
    \/ monitor_song_end(h)
    \/ handle_song_end
    \/ play_song("wd", d)
    \/ next_song("wd")

\* The two threads interleave between statements.
Next ==
    \/ UIStep(MaxDepth)
    \/ UICommand(FALSE, MaxTracks)
    \/ WDStep(FALSE, MaxDepth)
    \/ TrackEnds

Spec == Init /\ [][Next]_vars

\* One operation at a time: a command runs while the watchdog is between
\* handlers, a watchdog tick runs while no command does; each operation
\* records what it started from.
NextSeq ==
    \/ Idle("wd") /\ UIStep(SeqDepth)
    \/ Idle("wd") /\ UICommand(TRUE, SeqTracks)
    \/ Idle("ui") /\ WDStep(TRUE, SeqDepth)
    \/ TrackEnds

SpecSeq == Init /\ [][NextSeq]_vars

TypeOK ==
    /\ state \in {"STOPPED", "PLAYING", "PAUSED"}
    /\ playing_song \in {None} \cup {PathOf(t) : t \in 0..SeqTracks}
    /\ playing_from_playlist \in BOOLEAN
    /\ loop \in {"NONE", "ONE", "ALL"}
    /\ output \in {"idle", "playing", "paused"}
    /\ \A th \in Threads : Depth(th) <= SeqDepth

----
\* Vocabulary of the properties.

\* Thread th takes a step.
Steps(th) == stack'[th] # stack[th]
\* The operation thread th runs comes to its end in this step, by returning
\* or by an exception.
Ends(th) == ~Idle(th) /\ Idle(th)'
\* The command op of the UI thread comes to its end in this step.
CommandEnds(op) == pre["ui"].op = op /\ Ends("ui")
\* play_song calls of th whose load was rejected and that have not returned.
Rejected(th) == {i \in 1..Len(stack[th]) : stack[th][i].pc = "ps106"}

----
\* C1: when the stop command has run, the status is STOPPED and the current
\* track is the one from before the command.
C1_StopSetsStopped ==
    [][CommandEnds("stop") =>
         /\ state' = "STOPPED"
         /\ playing_song' = pre["ui"].song]_vars

\* C2: the watchdog calls the end-of-track handler only at a moment when the
\* transition guard is false.
C2_NoHandlerUnderGuard ==
    [][(At("wd", {"wd123"}) /\ At("wd", {"hs130"})') => ~state_switch]_vars

\* C3: whenever a play_song call whose load was rejected comes to its end, in
\* whatever way, the transition guard is false.
C3_GuardClearedOnFailure ==
    [][\A th \in Threads :
         Cardinality(Rejected(th)') < Cardinality(Rejected(th))
           => ~state_switch']_vars

----
\* The displayed order as a ring: the index after and before i among n titles.
After(i, n) == (i % n) + 1
Before(i, n) == ((i + n - 2) % n) + 1

\* The command op navigates a playlist in loop mode ALL from a bookmark that
\* is listed.
NavigatesAll(op) ==
    /\ pre["ui"].op = op
    /\ playing_from_playlist
    /\ loop = "ALL"
    /\ pre["ui"].sel \in RangeOf(songs)

\* The title the command op is to reach from the bookmark it started at.
Target(op) ==
    LET i == IndexOf(songs, pre["ui"].sel)
    IN songs[IF op = "next" THEN After(i, Len(songs)) ELSE Before(i, Len(songs))]

\* The command loads the target first, with the bookmark on the target, and
\* does not end without a load.
ReachesTarget(op) ==
    /\ (At("ui", {"ps94"}) /\ pre["ui"].tried = <<>>) =>
         /\ Top("ui").media = PathOf(Target(op))
         /\ current_playlist_media =
              [title |-> Target(op), path |-> PathOf(Target(op))]
    /\ Ends("ui") => pre["ui"].tried # <<>>

C5_StopAtEnds ==
    [][(/\ playing_from_playlist
        /\ loop = "NONE"
        /\ songs # <<>>
        /\ \/ CommandEnds("next") /\ pre["ui"].sel = songs[Len(songs)]
           \/ CommandEnds("previous") /\ pre["ui"].sel = songs[1])
       => /\ ~Crashed'
          /\ state' = "STOPPED"
          /\ pre["ui"].tried = <<>>
          /\ current_playlist_media' = current_playlist_media
          /\ current_playlist_media.title = pre["ui"].sel
          /\ playing_song' = pre["ui"].song]_vars

\* next has resolved to a stop at the last of several titles.
C5_Witness ==
    /\ pre["ui"].op = "next"
    /\ At("ui", {"ns210"})
    /\ playing_from_playlist
    /\ loop = "NONE"
    /\ Len(songs) >= 2
    /\ pre["ui"].sel = songs[Len(songs)]

\* The operation of th loaded the track it started with, and nothing else,
\* and left the bookmark and the current track alone.
Replayed(th) ==
    /\ pre[th].tried # <<>>
    /\ \A i \in 1..Len(pre[th].tried) : pre[th].tried[i] = pre[th].song
    /\ current_playlist_media'.title = pre[th].sel
    /\ playing_song' = pre[th].song

\* C6, as stated: with loop ONE and a current track, next and the
\* end-of-track handler both replay the current track.
C6_LoopOneReplaysAlways ==
    [][(loop = "ONE") =>
         /\ (CommandEnds("next") /\ pre["ui"].song # None) => Replayed("ui")
         /\ (pre["wd"].op = "end" /\ Ends("wd") /\ pre["wd"].song # None)
              => Replayed("wd")]_vars

\* C6, amended: the same, except that the end-of-track handler stops instead
\* when playback is from the playlist and the playlist is empty.
C6_LoopOneReplays ==
    [][(loop = "ONE") =>
         /\ (CommandEnds("next") /\ pre["ui"].song # None) => Replayed("ui")
         /\ (/\ pre["wd"].op = "end" /\ Ends("wd") /\ pre["wd"].song # None
             /\ ~(playing_from_playlist /\ songs = <<>>))
              => Replayed("wd")]_vars

\* The handler replays a track of the playlist that has a successor.
C6_Witness ==
    /\ loop = "ONE"
    /\ pre["wd"].op = "end"
    /\ At("wd", {"ps94"})
    /\ playing_from_playlist
    /\ Len(songs) >= 2
    /\ current_playlist_media.title = songs[1]

\* C7: for a standalone track with loop NONE the end-of-track handler sets
\* the status to STOPPED without calling play_song, and while the status is
\* STOPPED the watchdog starts no handler, so nothing is loaded until a command.
C7_StandaloneEndStops ==
    [][Steps("wd") =>
         /\ (/\ At("wd", {"hs130"})
             /\ ~playing_from_playlist /\ loop = "NONE" /\ state # "PAUSED")
              => At("wd", {"hs137"})'
         /\ At("wd", {"hs137"}) => (state' = "STOPPED" /\ At("wd", {"wd125"})')
         /\ (Idle("wd") /\ state = "STOPPED") => Idle("wd")']_vars

\* The handler is about to set STOPPED for a standalone track.
C7_Witness ==
    /\ At("wd", {"hs137"})
    /\ ~playing_from_playlist
    /\ loop = "NONE"
    /\ state = "PLAYING"

\* C8: within one operation, no load is attempted of a ref whose load was
\* rejected earlier in that operation.
C8_NoRetryOfRejected ==
    \A th \in Threads :
        At(th, {"ps94"}) =>
            \A i \in Rejected(th) : stack[th][i].media # Top(th).media

\* C9: next and previous with playing_from_playlist and loop NONE or ALL,
\* when the playlist is empty or the bookmark's title is not listed, end with
\* the status STOPPED and without an error.
C9_StaleSelectionStops ==
    [][(/\ CommandEnds("next") \/ CommandEnds("previous")
        /\ playing_from_playlist
        /\ loop \in {"NONE", "ALL"}
        /\ current_playlist_media.title \notin RangeOf(songs))
       => (~Crashed' /\ state' = "STOPPED")]_vars

\* C10, as stated: in every state, PLAYING implies a current track.
C10_PlayingHasTrack ==
    state = "PLAYING" => playing_song # None

\* C10, amended: PLAYING implies a current track in every state in which no
\* play transition is in flight (state_switch is false).
C10_PlayingHasTrackOutsideTransition ==
    (state = "PLAYING" /\ ~state_switch) => playing_song # None

\* A track plays, the transition is over and the watchdog runs.
C10_Witness ==
    /\ state = "PLAYING"
    /\ ~state_switch
    /\ playing_song # None
    /\ stack["ui"] = <<>>
    /\ stack["wd"] # <<>>

----
\* The watchdog threads that are alive.
MonitorsAlive == stray + (IF MonitorAlive THEN 1 ELSE 0)

\* C11: at every moment at most one watchdog thread is alive, whether plays
\* come from commands or from the watchdog's own end-of-track handler.
C11_OneWatchdog == MonitorsAlive <= 1

\* A play_song called by the end-of-track handler has passed line 101 while
\* a command is inside play_song too.
C11_Witness ==
    /\ At("wd", {"ps108"})
    /\ At("ui", {"ps101", "ps108"})
    /\ MonitorsAlive = 1

----
\* C12: toggle_play_state from PLAYING pauses the output and sets PAUSED; from
\* PAUSED resumes it and sets PLAYING; from STOPPED with a remembered track
\* calls play_song with that track and the last playing_from_playlist value;
\* from STOPPED with no remembered track changes nothing.
C12_ToggleTransitions ==
    [][(pre["ui"].op = "toggle" /\ Steps("ui")) =>
         /\ (At("ui", {"tp149"}) /\ state = "PLAYING") =>
              /\ output = "playing" => output' = "paused"
              /\ ~get_busy(output')
              /\ At("ui", {"tp151"})'
              /\ UNCHANGED player
         /\ At("ui", {"tp151"}) =>
              /\ state' = "PAUSED"
              /\ Ends("ui")
              /\ UNCHANGED <<playing_song, playing_from_playlist,
                             current_playlist_media, output>>
         /\ (At("ui", {"tp149"}) /\ state = "PAUSED") =>
              /\ output = "paused" => output' = "playing"
              /\ At("ui", {"tp154"})'
              /\ UNCHANGED player
         /\ At("ui", {"tp154"}) =>
              /\ state' = "PLAYING"
              /\ Ends("ui")
              /\ UNCHANGED <<playing_song, playing_from_playlist,
                             current_playlist_media, output>>
         /\ (At("ui", {"tp149"}) /\ state = "STOPPED" /\ playing_song # None) =>
              /\ At("ui", {"ps88"})'
              /\ Top("ui")'.media = playing_song
              /\ Top("ui")'.fp = playing_from_playlist
              /\ UNCHANGED <<player, output>>
         /\ (At("ui", {"ps92"}) /\ pre["ui"].tried = <<>>) =>
              playing_from_playlist' = playing_from_playlist
         /\ (At("ui", {"ps94"}) /\ pre["ui"].tried = <<>>) =>
              Top("ui").media = pre["ui"].song
         /\ (At("ui", {"tp149"}) /\ state = "STOPPED" /\ playing_song = None) =>
              /\ Ends("ui")
              /\ UNCHANGED <<player, output, songs>>]_vars

\* toggle from STOPPED stands at the load of the remembered playlist track.
C12_Witness ==
    /\ pre["ui"].op = "toggle"
    /\ At("ui", {"ps94"})
    /\ pre["ui"].tried = <<>>
    /\ playing_from_playlist
    /\ state = "STOPPED"
    /\ Top("ui").media = pre["ui"].song

----
\* The control panel: shuffle, volume and loop mode, with the playlist edits.

\* Titles the playlist can hold in the runs of the control panel.
PanelTracks == 3

\* list(self.playlist.songs.items()): the (title, path) pairs in displayed order.
items(s) == [i \in 1..Len(s) |-> <<s[i], PathOf(s[i])>>]

\* dict(pairs): the keys in the order of their first occurrence.
RECURSIVE dict(_)
dict(l) ==
    IF l = <<>> THEN <<>>
    ELSE LET k == l[Len(l)][1]
             d == dict(SubSeq(l, 1, Len(l) - 1))
         IN IF k \in RangeOf(d) THEN d ELSE Append(d, k)

\* random.shuffle(l): any rearrangement of l.
Shuffles(l) ==
    {[i \in 1..Len(l) |-> l[p[i]]] :
        p \in {q \in [1..Len(l) -> 1..Len(l)] :
                 \A i, j \in 1..Len(l) : q[i] = q[j] => i = j}}

\* Restored with the saved order ignored: the displayed order is kept.
RestoredKept(s, saved) == s

\* line 180: the displayed order after shuffle is turned off.
Restored(s, saved) == dict(saved)

toggle_shuffle_state ==
    /\ At("ui", {"ts171", "ts175", "ts178", "ts180", "ts185"})
    /\ LET f == Top("ui") IN
       CASE f.pc = "ts171" ->
              /\ IF songs = <<>> THEN Return("ui")
                 ELSE IF ~shuffle THEN Goto("ui", "ts175")
                 ELSE Goto("ui", "ts180")
              /\ UNCHANGED <<songs, shuffle, current_playlist>>
         [] f.pc = "ts175" ->
              /\ current_playlist' = items(songs)
              /\ Goto("ui", "ts178")
              /\ UNCHANGED <<songs, shuffle>>
         [] f.pc = "ts178" ->
              \* lines 176-178
              /\ \E l \in Shuffles(current_playlist) : songs' = dict(l)
              /\ Goto("ui", "ts185")
              /\ UNCHANGED <<shuffle, current_playlist>>
         [] f.pc = "ts180" ->
              /\ songs' = Restored(songs, current_playlist)
              /\ Goto("ui", "ts185")
              /\ UNCHANGED <<shuffle, current_playlist>>
         [] f.pc = "ts185" ->
              \* the playlist view is redrawn (lines 182-183), then line 185
              /\ shuffle' = ~shuffle
              /\ Return("ui")
              /\ UNCHANGED <<songs, current_playlist>>
    /\ UNCHANGED <<player, running, output, stray, volume, shown>>

\* line 254
DecreasedVolume(v) == IF v > VOLUME_STEP THEN v - VOLUME_STEP ELSE 0

\* IncreasedVolume with no upper limit.
IncreasedVolumeUnlimited(v) == v + VOLUME_STEP

\* line 260
IncreasedVolume(v) ==
    IF v + VOLUME_STEP < VolumeMax THEN v + VOLUME_STEP ELSE VolumeMax

decrease_media_volume ==
    /\ At("ui", {"dv254"})
    /\ volume' = DecreasedVolume(volume)
    /\ Return("ui")
    /\ UNCHANGED <<player, running, songs, output, stray, shuffle,
                   current_playlist, shown>>

increase_media_volume ==
    /\ At("ui", {"iv260"})
    /\ volume' = IncreasedVolume(volume)
    /\ Return("ui")
    /\ UNCHANGED <<player, running, songs, output, stray, shuffle,
                   current_playlist, shown>>

\* The shuffle command starts; when it is to turn shuffle on, the displayed
\* order it starts from is recorded.
action_shuffle ==
    /\ Ready
    /\ stack' = [stack EXCEPT !["ui"] = <<Frame("ts171", None, FALSE, None)>>]
    /\ pre' = [pre EXCEPT !["ui"] = StartPre(TRUE, "shuffle")]
    /\ shown' = IF shuffle THEN shown ELSE [order |-> songs, intact |-> TRUE]
    /\ UNCHANGED <<player, running, songs, output, exc, stray, shuffle,
                   current_playlist, volume>>

action_increase_volume == Begin(TRUE, "increase", Frame("iv260", None, FALSE, None))
action_decrease_volume == Begin(TRUE, "decrease", Frame("dv254", None, FALSE, None))

PanelStep ==
    \/ toggle_shuffle_state
    \/ decrease_media_volume
    \/ increase_media_volume
    \/ change_loop_state

PanelCommand ==
    \/ action_shuffle
    \/ action_increase_volume
    \/ action_decrease_volume
    \/ action_loop(TRUE)
    \/ \E t \in 1..PanelTracks : add_song(t)
    \/ \E t \in 1..PanelTracks : remove_song(t)

NextPanel ==
    \/ PanelStep
    \/ PanelCommand

SpecPanel == Init /\ [][NextPanel]_vars

\* The shuffle command ends in this step, having turned shuffle on / off.
TurnedOn == pre["ui"].op = "shuffle" /\ Ends("ui") /\ ~shuffle /\ shuffle'
TurnedOff == pre["ui"].op = "shuffle" /\ Ends("ui") /\ shuffle /\ ~shuffle'

\* C13: when shuffle is turned off and the playlist was not edited since it
\* was turned on, the displayed order is again the one from before the
\* turn-on; every turn-on saves the order it starts from.
C13_ShuffleRoundTrip ==
    [][/\ (TurnedOff /\ shown.intact) => items(songs') = items(shown.order)
       /\ TurnedOn =>
            /\ current_playlist' = items(shown.order)
            /\ RangeOf(songs') = RangeOf(shown.order)
            /\ Len(songs') = Len(shown.order)]_vars

\* Shuffle is about to be turned off over a full, unedited playlist whose
\* displayed order differs from the saved one.
C13_Witness ==
    /\ At("ui", {"ts180"})
    /\ shuffle
    /\ shown.intact
    /\ Len(shown.order) = PanelTracks
    /\ songs # shown.order

----
\* C14: the stored volume stays within [0, 1] and snaps to the boundary:
\* increase at full volume leaves it full, decrease at 0 leaves 0, decrease
\* from a volume not above the step gives exactly 0, and increase from within
\* a step of full volume gives exactly full volume.
C14_VolumeClamped ==
    /\ volume \in 0..VolumeMax
    /\ [][/\ volume' \in 0..VolumeMax
          /\ At("ui", {"iv260"}) =>
               /\ volume = VolumeMax => volume' = VolumeMax
               /\ volume + VOLUME_STEP >= VolumeMax => volume' = VolumeMax
               /\ volume + VOLUME_STEP < VolumeMax => volume' = volume + VOLUME_STEP
          /\ At("ui", {"dv254"}) =>
               /\ volume = 0 => volume' = 0
               /\ volume <= VOLUME_STEP => volume' = 0
               /\ volume > VOLUME_STEP => volume' = volume - VOLUME_STEP]_vars

\* A decrease starts from a volume that is above 0 and below the step.
C14_Witness ==
    /\ At("ui", {"dv254"})
    /\ volume > 0
    /\ volume < VOLUME_STEP

----
\* Every command of the player, one operation at a time.

\* The bounds of the runs over every command.
AllTracks == 1
AllDepth == 1

NextAll ==
    \/ Idle("wd") /\ UIStep(AllDepth)
    \/ Idle("wd") /\ UICommand(TRUE, AllTracks)
    \/ Idle("wd") /\ PanelStep
    \/ Idle("wd") /\ action_shuffle
    \/ Idle("wd") /\ action_increase_volume
    \/ Idle("wd") /\ action_decrease_volume
    \/ Idle("ui") /\ WDStep(TRUE, AllDepth)
    \/ TrackEnds

SpecAll == Init /\ [][NextAll]_vars

\* C15: starting from NONE, the loop mode changes only along NONE -> ONE ->
\* ALL -> NONE, every cycle-loop command makes exactly one such change, and
\* no other command and no watchdog step changes it.
C15_LoopCycle ==
    /\ loop = "NONE"
    /\ [][/\ loop' # loop =>
               /\ pre["ui"].op = "loop"
               /\ Steps("ui")
               /\ <<loop, loop'>> \in
                    {<<"NONE", "ONE">>, <<"ONE", "ALL">>, <<"ALL", "NONE">>}
          /\ CommandEnds("loop") => loop' # loop]_vars

\* The cycle-loop command is about to take ALL back to NONE while a track
\* plays, shuffle is on and the volume has been changed.
C15_Witness ==
    /\ At("ui", {"cl161"})
    /\ loop = "ALL"
    /\ state = "PLAYING"
    /\ shuffle
    /\ volume # InitialVolume

----
\* C16: while the status is PAUSED, no step of the end-of-track handler loads
\* a track, changes the current track or the bookmark, or sets the status to
\* PLAYING or STOPPED.
C16_NoAdvanceWhilePaused ==
    [][(state = "PAUSED" /\ ~Idle("wd") /\ Steps("wd")) =>
         /\ ~At("wd", {"ps94"})
         /\ state' = "PAUSED"
         /\ playing_song' = playing_song
         /\ current_playlist_media' = current_playlist_media]_vars

----
\* The play_song calls of th that have reached the load of line 94 and have
\* not returned.
Loading(th) ==
    {i \in 1..Len(stack[th]) :
        stack[th][i].pc \in {"ps94", "ps95", "ps96", "ps101", "ps106", "ps108"}}

\* C17: the transition guard is true at every point from the moment a
\* play_song call begins loading until it returns, whatever nested play_song
\* calls and play_song calls on the other thread do meanwhile.
C17_GuardHeld ==
    (\E th \in Threads : Loading(th) # {}) => state_switch

----
\* C18: a watchdog thread that is alive ends only once running is false;
\* no outcome of the end-of-track handling ends it.
C18_WatchdogKeepsRunning ==
    [][(MonitorAlive /\ ~MonitorAlive') => ~running]_vars

----
\* C19: the watchdog comes back to the check at the head of its loop only
\* from a wait, in each of the three branches of an iteration.
C19_WaitInEveryBranch ==
    [][(MonitorAlive /\ Steps("wd") /\ At("wd", {"wd118"})')
         => At("wd", {"wd120", "wd125"})]_vars

----
\* C20: whenever no operation is in flight and the guard is clear, a status
\* of PLAYING with playing_from_playlist means that the current track is the
\* path stored in the bookmark.
C20_PlayingIsSelection ==
    (/\ \A th \in Threads : Idle(th)
     /\ ~state_switch
     /\ state = "PLAYING"
     /\ playing_from_playlist)
      => playing_song = current_playlist_media.path

====
